---- MODULE Spec2Model ----
(***************************************************************************)
(* Retrieval pipeline of FounderGPT: lexical query expansion               *)
(* (backend/query_processor.py), the rate-limited embedding / rerank       *)
(* gateway (backend/cohere_utils.py) and the search pipeline               *)
(* (backend/vector_search.py).                                             *)
(*                                                                         *)
(* Strings are sequences of fragments.  A fragment is an indivisible piece *)
(* of text (a word, one blank, one question mark); the text of a string is *)
(* the concatenation of its fragments.  Every string operation of the      *)
(* source (lower, strip, replace, split, the regular expressions) is       *)
(* written over fragments.                                                 *)
(***************************************************************************)
EXTENDS Integers, Sequences, FiniteSets, TLC

VARIABLES
    phase,      \* which operation is in progress / finished
    query,      \* expand_query: the argument
    expanded,   \* expand_query: the returned list
    gw,         \* the gateway call in progress: the locals of the retry loop,
                \* the sleeps and the provider calls it made, its outcome
    mg,         \* _merge_results: its argument, a reordering of its argument,
                \* and what it does for each
    ed,         \* embed_documents: its arguments, its locals, the sub-batches
                \* it has submitted and its outcome
    req         \* search(): its arguments, the configuration, its locals and
                \* its outcome

vars == <<phase, query, expanded, gw, ed, mg, req>>

----------------------------------------------------------------------------
(* Bounds *)

\* number of blank-separated items of an input query
MaxWords == 4

\* the items input queries are built from; <<>> is an empty item (it makes
\* leading, trailing and doubled blanks), "?" attaches to the item before it,
\* the word "is" is the two fragments "i" "s" (the pattern i? can take its "i")
Words == { <<>>, <<"how">>, <<"to">>, <<"what">>, <<"i", "s">>, <<"the">>,
           <<"and">>, <<"competition">>, <<"startup">>, <<"SaaS">>, <<"?">> }

----------------------------------------------------------------------------
(* Strings *)

SP == " "
QM == "?"

\* number of characters of a fragment
FragLen(f) ==
    CASE f = "how" -> 3 [] f = "to" -> 2 [] f = "what" -> 4 [] f = "i" -> 1 [] f = "s" -> 1
      [] f = "the" -> 3 [] f = "and" -> 3 [] f = "competition" -> 11
      [] f = "competitors" -> 11 [] f = "startup" -> 7 [] f = "company" -> 7
      [] f = "SaaS" -> 4 [] f = "saas" -> 4 [] f = " " -> 1 [] f = "?" -> 1
      [] f = "best practices for" -> 18 [] f = "case study" -> 10
      [] f = "real world example" -> 18 [] f = "how they did it" -> 15
      [] f = "P" -> 200 [] f = "Q" -> 200
      [] OTHER -> 1

RECURSIVE CharLen(_)
\* len(s)
CharLen(s) == IF s = <<>> THEN 0 ELSE FragLen(Head(s)) + CharLen(Tail(s))

\* str.lower() on one fragment
LowerFrag(f) ==
    CASE f = "SaaS" -> "saas"
      [] f = "Rate Limit" -> "rate limit"
      [] f = "Too Many" -> "too many"
      [] f = "Max retries exceeded due to " -> "max retries exceeded due to "
      [] OTHER -> f

\* str.lower()
Lower(s) == [i \in 1..Len(s) |-> LowerFrag(s[i])]

RECURSIVE LStrip(_)
LStrip(s) == IF s # <<>> /\ Head(s) = SP THEN LStrip(Tail(s)) ELSE s

RECURSIVE RStrip(_)
RStrip(s) == IF s # <<>> /\ s[Len(s)] = SP THEN RStrip(SubSeq(s, 1, Len(s) - 1)) ELSE s

\* str.strip()
Strip(s) == RStrip(LStrip(s))

\* s[i:] with i a 1-based fragment index
From(s, i) == SubSeq(s, i, Len(s))

\* pat in s
Contains(s, pat) ==
    \E i \in 1..(Len(s) - Len(pat) + 1) : SubSeq(s, i, i + Len(pat) - 1) = pat

RECURSIVE Replace(_, _, _)
\* s.replace(term, rep) for a one-fragment term: every occurrence
Replace(s, term, rep) ==
    IF s = <<>> THEN <<>>
    ELSE IF Head(s) = term THEN rep \o Replace(Tail(s), term, rep)
    ELSE <<Head(s)>> \o Replace(Tail(s), term, rep)

RECURSIVE SkipWs(_, _)
\* index of the first fragment at or after i that is not a blank (\s+ / \s*)
SkipWs(s, i) == IF i <= Len(s) /\ s[i] = SP THEN SkipWs(s, i + 1) ELSE i

\* a fragment made of word characters (\w)
IsWord(f) == f # SP /\ f # QM

\* \b in front of a word fragment at index i
Boundary(s, i) == i = 1 \/ ~IsWord(s[i - 1])

Min(a, b) == IF a < b THEN a ELSE b

\* x occurs in the list l
InList(x, l) == \E i \in 1..Len(l) : l[i] = x

RECURSIVE Count(_, _)
\* s.count(f)
Count(s, f) ==
    IF s = <<>> THEN 0 ELSE (IF Head(s) = f THEN 1 ELSE 0) + Count(Tail(s), f)

RECURSIVE SplitAt(_, _, _)
\* s.split(sep) for a one-fragment separator; cur is the piece being read
SplitAt(s, sep, cur) ==
    IF s = <<>> THEN <<cur>>
    ELSE IF Head(s) = sep THEN <<cur>> \o SplitAt(Tail(s), sep, <<>>)
    ELSE SplitAt(Tail(s), sep, Append(cur, Head(s)))

Split(s, sep) == SplitAt(s, sep, <<>>)

RECURSIVE JoinItems(_)
\* the text of a list of items: a blank before every item but "?"
JoinItems(items) ==
    IF items = <<>> THEN <<>>
    ELSE IF Len(items) = 1 THEN Head(items)
    ELSE LET rest == JoinItems(Tail(items))
         IN  IF items[2] = <<QM>> THEN Head(items) \o rest
             ELSE Head(items) \o <<SP>> \o rest

RECURSIVE SeqsUpTo(_, _)
\* sequences over S of length 1..n
SeqsUpTo(S, n) ==
    IF n = 0 THEN {}
    ELSE LET shorter == SeqsUpTo(S, n - 1)
         IN  {<<x>> : x \in S} \cup shorter
                \cup {Append(t, x) : t \in {u \in shorter : Len(u) = n - 1}, x \in S}

\* the input queries
Queries == {JoinItems(items) : items \in SeqsUpTo(Words, MaxWords)}

----------------------------------------------------------------------------
(* backend/query_processor.py *)

\* self.synonym_map, in insertion order, each term with its first synonym
synonym_map ==
    << [term |-> "validate", syn |-> "test"],
       [term |-> "customer", syn |-> "user"],
       [term |-> "product", syn |-> "solution"],
       [term |-> "startup", syn |-> "company"],
       [term |-> "founder", syn |-> "entrepreneur"],
       [term |-> "growth", syn |-> "scale"],
       [term |-> "hire", syn |-> "recruit"],
       [term |-> "funding", syn |-> "investment"],
       [term |-> "pivot", syn |-> "change direction"],
       [term |-> "market", syn |-> "segment"],
       [term |-> "feedback", syn |-> "input"],
       [term |-> "idea", syn |-> "concept"],
       [term |-> "problem", syn |-> "pain point"],
       [term |-> "revenue", syn |-> "income"],
       [term |-> "competition", syn |-> "competitors"],
       [term |-> "two-sided market", syn |-> "marketplace"],
       [term |-> "b2b", syn |-> "enterprise"],
       [term |-> "d2c", syn |-> "direct to consumer"] >>

\* _expand_with_synonyms
ExpandWithSynonyms(q) ==
    LET e    == Lower(q)
        hits == {i \in 1..Len(synonym_map) : Contains(e, <<synonym_map[i].term>>)}
    IN  IF hits = {} THEN e
        ELSE LET i == CHOOSE h \in hits : \A g \in hits : h <= g
             IN  Replace(e, synonym_map[i].term,
                         <<synonym_map[i].term, SP, synonym_map[i].syn>>)

\* index after a match of  ^head (alt1|alt2|..)\s+  at the start of s, 0 if none
AnchoredEnd(s, head, alts) ==
    LET ends == {n \in 1..Len(s) :
                    /\ Len(s) >= 2 + n + 1
                    /\ s[1] = head /\ s[2] = SP
                    /\ SubSeq(s, 3, 2 + n) \in alts
                    /\ s[3 + n] = SP}
    IN  IF ends = {} THEN 0
        ELSE SkipWs(s, 3 + (CHOOSE n \in ends : TRUE))

\* re.sub(r'^head (alts)\s+', '', s)
AnchoredSub(s, head, alts) ==
    LET e == AnchoredEnd(s, head, alts) IN IF e = 0 THEN s ELSE From(s, e)

RECURSIVE WordSubFrom(_, _, _)
\* re.sub(r'\bw\s+', '', s), scanning from index i
WordSubFrom(s, w, i) ==
    IF i > Len(s) THEN <<>>
    ELSE IF s[i] = w /\ Boundary(s, i) /\ i < Len(s) /\ s[i + 1] = SP
         THEN WordSubFrom(s, w, SkipWs(s, i + 1))
         ELSE <<s[i]>> \o WordSubFrom(s, w, i + 1)

WordSub(s, w) == WordSubFrom(s, w, 1)

HowAlts  == { <<"do">>, <<"can">>, <<"should">>, <<"would">>, <<"to">> }
WhatAlts == { <<"i", "s">>, <<"are">>, <<"should">>, <<"would">> }
WhyAlts  == { <<"do">>, <<"does">>, <<"i", "s">>, <<"are">>, <<"should">> }
WhenAlts == { <<"should">>, <<"do">>, <<"does">>, <<"i", "s">> }

\* _extract_key_concepts: the stop patterns applied one after another
ExtractKeyConcepts(q) ==
    LET c0 == Lower(q)
        c1 == AnchoredSub(c0, "how", HowAlts)
        c2 == AnchoredSub(c1, "what", WhatAlts)
        c3 == AnchoredSub(c2, "why", WhyAlts)
        c4 == AnchoredSub(c3, "when", WhenAlts)
        c5 == WordSub(c4, "i")
        c6 == WordSub(c5, "my")
        c7 == WordSub(c6, "we")
        c8 == WordSub(c7, "our")
        c9 == WordSub(c8, "the")
        c10 == WordSub(c9, "a")
        c11 == WordSub(c10, "an")
    IN  Strip(c11)

\* re.sub(r'^how (do|can|should|would|to)\s+i?\s*', '', s)
HowStatement(s) ==
    LET e == AnchoredEnd(s, "how", HowAlts)
    IN  IF e = 0 THEN s
        ELSE IF e <= Len(s) /\ s[e] = "i" THEN From(s, SkipWs(s, e + 1))
        ELSE From(s, e)

\* re.sub(r'^what (is|are|should|would)\s+(the\s+)?', '', s)
WhatAction(s) ==
    LET e == AnchoredEnd(s, "what", WhatAlts)
    IN  IF e = 0 THEN s
        ELSE IF e < Len(s) /\ s[e] = "the" /\ s[e + 1] = SP
             THEN From(s, SkipWs(s, e + 1))
        ELSE From(s, e)

\* _reformulate_query
ReformulateQuery(q) ==
    LET ql == Lower(q)
        how == IF ql # <<>> /\ ql[1] = "how" /\ HowStatement(ql) # ql
               THEN << <<"best practices for", SP>> \o HowStatement(ql) >>
               ELSE <<>>
        what == IF ql # <<>> /\ ql[1] = "what" /\ WhatAction(ql) # ql
                THEN << WhatAction(ql) >>
                ELSE <<>>
        ctx == IF ~Contains(ql, <<"startup">>) /\ ~Contains(ql, <<"founder">>)
               THEN << <<"startup", SP>> \o q >>
               ELSE <<>>
    IN  how \o what \o ctx

RECURSIVE ReSplitAnd(_, _, _)
\* re.split(r'\s+and\s+', s, flags=re.IGNORECASE), scanning from index i;
\* cur is the part being read
ReSplitAnd(s, i, cur) ==
    IF i > Len(s) THEN <<cur>>
    ELSE LET j == SkipWs(s, i)
         IN  IF s[i] = SP /\ j < Len(s) /\ LowerFrag(s[j]) = "and" /\ s[j + 1] = SP
             THEN <<cur>> \o ReSplitAnd(s, SkipWs(s, j + 1), <<>>)
             ELSE ReSplitAnd(s, i + 1, Append(cur, s[i]))

\* the strings of a list that pass a test, in order
RECURSIVE AndParts(_)
AndParts(parts) ==
    IF parts = <<>> THEN <<>>
    ELSE LET part == Strip(Head(parts))
         IN  (IF CharLen(part) > 10 THEN <<part>> ELSE <<>>) \o AndParts(Tail(parts))

RECURSIVE Questions(_)
\* [q.strip() + "?" for q in pieces if q.strip()]
Questions(pieces) ==
    IF pieces = <<>> THEN <<>>
    ELSE LET p == Strip(Head(pieces))
         IN  (IF p # <<>> THEN <<Append(p, QM)>> ELSE <<>>) \o Questions(Tail(pieces))

\* _decompose_complex_query
DecomposeComplexQuery(q) ==
    LET ands == IF Contains(Lower(q), <<SP, "and", SP>>)
                THEN AndParts(ReSplitAnd(q, 1, <<>>))
                ELSE <<>>
        qs   == IF Count(q, QM) > 1
                THEN LET questions == Questions(Split(q, QM))
                     IN  SubSeq(questions, 1, Len(questions) - 1)
                ELSE <<>>
    IN  ands \o qs

\* the fixed suffix variants of expand_query, step 5
CaseStudy(q)        == q \o <<SP, "case study">>
RealWorldExample(q) == q \o <<SP, "real world example">>
HowTheyDidIt(q)     == q \o <<SP, "how they did it">>

\* everything expand_query adds to the set `queries`, in the order it adds it
Candidates(q) ==
    LET concepts == ExtractKeyConcepts(q)
    IN  <<q, ExpandWithSynonyms(q)>>
          \o (IF concepts # <<>> THEN <<concepts>> ELSE <<>>)
          \o ReformulateQuery(q)
          \o DecomposeComplexQuery(q)
          \o <<CaseStudy(q), RealWorldExample(q), HowTheyDidIt(q)>>

\* set(result): the stripped, non-blank candidates
Variants(q) ==
    LET c == Candidates(q)
    IN  {Strip(c[i]) : i \in {j \in 1..Len(c) : Strip(c[j]) # <<>>}}

\* the cap of expand_query
MAX_QUERIES == 8

RECURSIVE Dedup(_, _)
\* the elements of a list, first occurrences only, in order
Dedup(c, seen) ==
    IF c = <<>> THEN <<>>
    ELSE IF Head(c) \in seen THEN Dedup(Tail(c), seen)
    ELSE <<Head(c)>> \o Dedup(Tail(c), seen \cup {Head(c)})

\* result of expand_query before the set() of the return statement, in
\* insertion order
InsertionOrder(q) ==
    LET c == Candidates(q)
        stripped == [i \in 1..Len(c) |-> Strip(c[i])]
    IN  Dedup(SelectSeq(stripped, LAMBDA x : x # <<>>), {})

Reverse(s) == [i \in 1..Len(s) |-> s[Len(s) + 1 - i]]

RECURSIVE SubSeqsOf(_, _)
\* the subsequences of s that have n elements
SubSeqsOf(s, n) ==
    IF n = 0 THEN {<<>>}
    ELSE IF Len(s) < n THEN {}
    ELSE {<<Head(s)>> \o t : t \in SubSeqsOf(Tail(s), n - 1)}
            \cup SubSeqsOf(Tail(s), n)

\* list(set(result))[:8].  The iteration order of a set of str follows the
\* hashes of its elements, which change from process to process (hash
\* randomisation), so which 8 elements survive the slice is any choice of 8;
\* the survivors are listed forwards or backwards.
ListSetSlice(ordered) ==
    LET kept == SubSeqsOf(ordered, Min(MAX_QUERIES, Len(ordered)))
    IN  kept \cup {Reverse(k) : k \in kept}

\* expand_query: the lists it can return
ExpandQuery(q) == ListSetSlice(InsertionOrder(q))

----------------------------------------------------------------------------
(* backend/cohere_utils.py: the retry loop of _embed_batch_with_retry and
   of rerank *)

\* largest max_retries a gateway call is made with
MaxRetries == 3

\* the initial_wait defaults: embed_query / rerank 10.0, embed_documents 60.0
InitialWaits == {10, 60}

\* messages of the errors the provider raises
ErrorTexts ==
    { <<"status_code: ", "429">>,
      <<"Rate Limit", " exceeded">>,
      <<"Too Many", " requests">>,
      <<"Max retries exceeded due to ", "rate limit", "s: ", "upstream">>,
      <<"connection timed out">>,
      <<"invalid api key">> }

\* variant of IsRateLimit: every provider error counts as throttling
IsRateLimitAny(e) == TRUE

\* the test of the except clause: "429" in str(e) or "rate limit" in
\* error_str or "too many" in error_str, with error_str = str(e).lower()
IsRateLimit(e) ==
    LET error_str == Lower(e)
    IN  \/ Contains(e, <<"429">>)
        \/ Contains(error_str, <<"rate limit">>)
        \/ Contains(error_str, <<"too many">>)

\* f"Max retries exceeded due to rate limits: {e}"
MaxRetriesExceeded(e) == <<"Max retries exceeded due to ", "rate limit", "s: ">> \o e

\* "Unexpected state in retry loop"
UnexpectedState == <<"Unexpected state in retry loop">>

\* variant of NextWait: linear instead of exponential backoff
NextWaitLinear(wait_time) == wait_time + 10

\* wait_time *= 2
NextWait(wait_time) == wait_time * 2

\* variant of MayRetry: off by one
MayRetryInclusive(attempt, max_retries) == attempt <= max_retries

\* attempt < max_retries
MayRetry(attempt, max_retries) == attempt < max_retries

\* no gateway call in progress
GwIdle ==
    [op |-> "none", max_retries |-> 0, initial_wait |-> 0, attempt |-> 0,
     wait_time |-> 0, sleeps |-> <<>>, calls |-> <<>>, status |-> "idle",
     exc |-> <<>>, response |-> <<>>]

\* entry of the call: wait_time = initial_wait, the loop starts at attempt 0
GwEnter(op, max_retries, initial_wait) ==
    [op |-> op, max_retries |-> max_retries, initial_wait |-> initial_wait,
     attempt |-> 0, wait_time |-> initial_wait, sleeps |-> <<>>,
     calls |-> <<>>, status |-> "running", exc |-> <<>>, response |-> <<>>]

\* one provider call: it returns a response or raises an error
ProviderOutcomes(errors, responses) ==
    {[ok |-> TRUE, value |-> r] : r \in responses}
        \cup {[ok |-> FALSE, value |-> e] : e \in errors}

\* one iteration of `for attempt in range(max_retries + 1)`: the provider
\* call and what the try / except makes of its outcome o
GwIteration(g, o) ==
    LET called == [g EXCEPT !.calls = Append(@, o)]
    IN  IF o.ok
        THEN [called EXCEPT !.status = "returned", !.response = o.value]
        ELSE IF IsRateLimit(o.value)
        THEN IF MayRetry(g.attempt, g.max_retries)
             THEN [called EXCEPT !.sleeps = Append(@, g.wait_time),
                                 !.wait_time = NextWait(g.wait_time),
                                 !.attempt = g.attempt + 1]
             ELSE [called EXCEPT !.status = "raised",
                                 !.exc = MaxRetriesExceeded(o.value)]
        ELSE [called EXCEPT !.status = "raised", !.exc = o.value]

\* the statement after the loop
GwAfterLoop(g) == [g EXCEPT !.status = "raised", !.exc = UnexpectedState]

\* the loop has iterations left
GwInLoop(g) == g.status = "running" /\ g.attempt < g.max_retries + 1

\* the gateway call g one step on, the provider answering from the given
\* errors and responses
GwStep(g, errors, responses) ==
    IF GwInLoop(g)
    THEN {GwIteration(g, o) : o \in ProviderOutcomes(errors, responses)}
    ELSE {GwAfterLoop(g)}

----------------------------------------------------------------------------
(* backend/cohere_utils.py: embed_documents *)

\* largest number of texts given to embed_documents
MaxTexts == 4

\* largest batch_size tried besides the default
MaxBatch == 3

\* batch_size: int = 96
DEFAULT_BATCH_SIZE == 96

\* the values of batch_size
BatchSizes == 1..MaxBatch \cup {DEFAULT_BATCH_SIZE}

\* the vector the provider computes for the text t
EmbeddingOf(t) == <<"vector", t>>

\* response.embeddings for a batch: one vector per text, in the order of
\* the texts
EmbedResponse(batch) == [j \in 1..Len(batch) |-> EmbeddingOf(batch[j])]

\* total_batches = (len(texts) - 1) // batch_size + 1
TotalBatches(texts, batch_size) == ((Len(texts) - 1) \div batch_size) + 1

\* batch = texts[i:i + batch_size]
Batch(texts, i, batch_size) ==
    SubSeq(texts, i + 1, Min(i + batch_size, Len(texts)))

\* the arguments of one call of _embed_batch_with_retry
BatchCall(batch) == [texts |-> batch, input_type |-> "search_document"]

\* variant of Extend: the new vectors are put in front
ExtendInFront(all_embeddings, embeddings) == embeddings \o all_embeddings

\* all_embeddings.extend(embeddings)
Extend(all_embeddings, embeddings) == all_embeddings \o embeddings

\* the value of a call that returned nothing
NoResult == <<"no result">>

\* no call of embed_documents
EdIdle ==
    [texts |-> <<>>, batch_size |-> 0, max_retries |-> 0, initial_wait |-> 0,
     total_batches |-> 0, i |-> 0, all_embeddings |-> <<>>, batches |-> <<>>,
     status |-> "idle", exc |-> <<>>, result |-> NoResult]

\* embed_documents(texts, batch_size, max_retries, initial_wait) is called
EdCalled(texts, batch_size, max_retries, initial_wait) ==
    [EdIdle EXCEPT !.texts = texts, !.batch_size = batch_size,
                   !.max_retries = max_retries, !.initial_wait = initial_wait,
                   !.status = "called"]

\* for i in range(0, len(texts), batch_size): the loop has an iteration at i
EdInLoop(e) == e.i < Len(e.texts)

\* the head of the loop at e.i: the next batch is handed to
\* _embed_batch_with_retry, or the loop is over and all_embeddings returned
EdLoop(e) ==
    IF EdInLoop(e)
    THEN [e EXCEPT !.status = "running",
                   !.batches = Append(@, BatchCall(Batch(e.texts, e.i, e.batch_size)))]
    ELSE [e EXCEPT !.status = "returned", !.result = e.all_embeddings]

\* the gateway call made for the loop state e, if one is
EdGateway(e, g) ==
    IF e.status = "running"
    THEN GwEnter("embed", e.max_retries, e.initial_wait)
    ELSE g

----------------------------------------------------------------------------
(* backend/vector_search.py: chunks and _merge_results *)

\* largest number of candidates in a list given to _merge_results
MaxCand == 3

\* scores are kept as integers: a score x stands for x / (100 * ScoreUnit),
\* so that every repeated halving of the merge is exact
ScoreUnit == 2 ^ MaxCand

\* similarity scores the index reports (0.30 and 0.90)
IndexScores == {30 * ScoreUnit, 90 * ScoreUnit}

\* exact_text of a payload that has none (payload.get returns None)
NoneText == <<"None">>

\* key of a dict that has not been set
Absent == 0

\* the points of the index: "P" and "Q" stand for 200 characters each, "t"
\* for one, so the first two texts agree on their first 200 characters
Points ==
    { [exact_text |-> <<"P">>, source_file |-> "lean.pdf"],
      [exact_text |-> <<"P", "t">>, source_file |-> "blog.html"],
      [exact_text |-> <<"Q">>, source_file |-> "lean.pdf"] }

\* a payload without exact_text
BarePoints == { [exact_text |-> NoneText, source_file |-> "notes.pdf"] }

\* the chunk dict _search_with_embedding builds for a point and its score
Chunk(point, score) ==
    [exact_text |-> point.exact_text, source_file |-> point.source_file,
     score |-> score, match_count |-> Absent, rerank_score |-> Absent]

RECURSIVE TakeChars(_, _)
\* s[:n], for a string whose n-th character ends a fragment
TakeChars(s, n) ==
    IF s = <<>> \/ FragLen(Head(s)) > n THEN <<>>
    ELSE <<Head(s)>> \o TakeChars(Tail(s), n - FragLen(Head(s)))

\* variant of TextKey: the whole text is the key
TextKeyWhole(chunk) == chunk.exact_text

\* hash(text[:200]): the dict key of a chunk.  Distinct prefixes are taken to
\* have distinct hashes.
TextKey(chunk) == TakeChars(chunk.exact_text, 200)

\* variant of Average: precedence slip, existing + (incoming / 2)
AverageNoParen(a, b) == a + (b \div 2)

\* variant of Average: the score of the first occurrence is kept
AverageKeepFirst(a, b) == a

\* (existing["score"] + chunk["score"]) / 2
Average(a, b) == (a + b) \div 2

\* dict.get("match_count", 1)
GetMatchCount(chunk) == IF chunk.match_count = Absent THEN 1 ELSE chunk.match_count

RECURSIVE MergeLoop(_, _)
\* the loop of _merge_results over the candidates left; seen is the dict
\* seen_texts as the list of its values in insertion order.  text[:200]
\* raises TypeError on a None text.
MergeLoop(all_results, seen) ==
    IF all_results = <<>> THEN [raised |-> FALSE, seen |-> seen]
    ELSE LET chunk == Head(all_results)
         IN  IF chunk.exact_text = NoneText THEN [raised |-> TRUE, seen |-> seen]
             ELSE LET hits == {j \in 1..Len(seen) : TextKey(seen[j]) = TextKey(chunk)}
                  IN  IF hits # {}
                      THEN LET j == CHOOSE h \in hits : TRUE
                               existing == seen[j]
                               updated ==
                                   [existing EXCEPT
                                      !.score = Average(existing.score, chunk.score),
                                      !.match_count = GetMatchCount(existing) + 1]
                           IN  MergeLoop(Tail(all_results), [seen EXCEPT ![j] = updated])
                      ELSE MergeLoop(Tail(all_results),
                                     Append(seen, [chunk EXCEPT !.match_count = 1]))

\* variant of SortsBefore: the score is compared first
SortsBeforeByScore(a, b) ==
    \/ a.score > b.score
    \/ a.score = b.score /\ GetMatchCount(a) > GetMatchCount(b)

\* a has the greater sort key (match_count, score)
SortsBefore(a, b) ==
    \/ GetMatchCount(a) > GetMatchCount(b)
    \/ GetMatchCount(a) = GetMatchCount(b) /\ a.score > b.score

\* sorted with e added: list.sort is stable, e goes behind the entries
\* whose key is not smaller
InsertSorted(sorted, e) ==
    LET behind == {j \in 1..Len(sorted) : SortsBefore(e, sorted[j])}
        at == IF behind = {} THEN Len(sorted) + 1
              ELSE CHOOSE j \in behind : \A h \in behind : j <= h
    IN  SubSeq(sorted, 1, at - 1) \o <<e>> \o SubSeq(sorted, at, Len(sorted))

RECURSIVE SortMerged(_, _)
\* merged.sort(key=(match_count, score), reverse=True)
SortMerged(merged, sorted) ==
    IF merged = <<>> THEN sorted
    ELSE SortMerged(Tail(merged), InsertSorted(sorted, Head(merged)))

\* _merge_results: it raises, or returns the list `merged`
MergeResults(all_results) ==
    LET loop == MergeLoop(all_results, <<>>)
    IN  IF loop.raised THEN [raised |-> TRUE, merged |-> <<>>]
        ELSE [raised |-> FALSE, merged |-> SortMerged(loop.seen, <<>>)]

\* no call of _merge_results made
MgIdle == [all_results |-> <<>>, permuted |-> <<>>, called |-> FALSE,
           out |-> [raised |-> FALSE, merged |-> <<>>],
           out_permuted |-> [raised |-> FALSE, merged |-> <<>>]]

----------------------------------------------------------------------------
(* backend/vector_search.py: _rerank_with_cohere, _apply_diversity, search *)

\* largest top_k a search is made with
MaxTopK == 2

\* largest number of chunks the index searches of one request return in all
MaxHits == 2

\* chunks[:n]
Take(l, n) == SubSeq(l, 1, Min(n, Len(l)))

\* chunk.get("source_file") or ...: the points of the index all carry a
\* source_file
SourceKey(chunk) == chunk.source_file

RECURSIVE GroupKeys(_, _)
\* keys of `groups` in first-encounter order
GroupKeys(remaining, keys) ==
    IF remaining = <<>> THEN keys
    ELSE IF InList(SourceKey(Head(remaining)), keys)
         THEN GroupKeys(Tail(remaining), keys)
         ELSE GroupKeys(Tail(remaining), Append(keys, SourceKey(Head(remaining))))

RECURSIVE RoundRobinPass(_, _, _, _, _)
\* `for key in keys` from the n-th key on: one chunk of each non-empty group
\* while slots are free
RoundRobinPass(keys, n, groups, pool, slots) ==
    IF n > Len(keys) THEN [groups |-> groups, pool |-> pool]
    ELSE IF groups[n] # <<>> /\ Len(pool) < slots
         THEN RoundRobinPass(keys, n + 1, [groups EXCEPT ![n] = Tail(@)],
                             Append(pool, Head(groups[n])), slots)
         ELSE RoundRobinPass(keys, n + 1, groups, pool, slots)

RECURSIVE RoundRobin(_, _, _, _)
\* the while loop of the round-robin selection
RoundRobin(keys, groups, pool, slots) ==
    IF Len(pool) < slots /\ \E n \in 1..Len(groups) : groups[n] # <<>>
    THEN LET pass == RoundRobinPass(keys, 1, groups, pool, slots)
         IN  RoundRobin(keys, pass.groups, pass.pool, slots)
    ELSE pool

\* variant of ApplyDiversity: the round robin runs over the whole list
ApplyDiversityNoTop(chunks, top_k) ==
    LET keys == GroupKeys(chunks, <<>>)
        groups == [n \in 1..Len(keys) |->
                     SelectSeq(chunks, LAMBDA c : SourceKey(c) = keys[n])]
    IN  RoundRobin(keys, groups, <<>>, top_k)

\* variant of TopAbsolute: the best two
TopAbsoluteTwo(chunks) == Take(chunks, 2)

\* top_absolute = chunks[:3]
TopAbsolute(chunks) == Take(chunks, 3)

\* variant of Remaining: the fourth chunk is skipped
RemainingFromFifth(chunks) == SubSeq(chunks, 5, Len(chunks))

\* remaining = chunks[3:]
Remaining(chunks) == SubSeq(chunks, 4, Len(chunks))

\* variant of DiversePool: the slots are filled in rank order
DiversePoolByRank(remaining, top_k) == Take(remaining, top_k - 3)

\* diverse_pool: the chunks after the third are grouped by source and the
\* groups are visited in turn until top_k - 3 chunks are taken or none is left
DiversePool(remaining, top_k) ==
    LET keys == GroupKeys(remaining, <<>>)
        groups == [n \in 1..Len(keys) |->
                     SelectSeq(remaining, LAMBDA c : SourceKey(c) = keys[n])]
    IN  IF remaining # <<>>
        THEN RoundRobin(keys, groups, <<>>, top_k - 3)
        ELSE <<>>

\* _apply_diversity
ApplyDiversity(chunks, top_k) ==
    IF chunks = <<>> THEN <<>>
    ELSE TopAbsolute(chunks) \o DiversePool(Remaining(chunks), top_k)

\* variant of RerankFallback: the fallback is cut to top_k
RerankFallbackTopK(chunks, top_k) == Take(chunks, top_k)

\* the return of the except clause of _rerank_with_cohere: chunks[:top_k * 2]
RerankFallback(chunks, top_k) == Take(chunks, top_k * 2)

\* settings.SIMILARITY_THRESHOLD (0.28)
SIMILARITY_THRESHOLD == 28 * ScoreUnit

\* max_retries and initial_wait of the rerank call: the defaults of
\* CohereEmbedder.rerank
RERANK_MAX_RETRIES == 3
RERANK_INITIAL_WAIT == 10

\* the methods and properties of class CohereEmbedder, the type of
\* self.embedder
EmbedderAttributes ==
    { "client", "embed_documents", "embed_query", "_embed_batch_with_retry",
      "rerank" }

\* the exception of an attribute lookup on self.embedder that fails
AttributeError(name) ==
    <<"'CohereEmbedder' object has no attribute '", name, "'">>

\* one vector per text, the i-th written i
Embeddings(texts) == [i \in 1..Len(texts) |-> i]

\* provider errors met during a search: a throttling signal and a fault
SearchErrors == { <<"status_code: ", "429">>, <<"connection timed out">> }

\* relevance scores of the reranker for its best result
Relevances == {99}

\* response.results of the reranker for n documents: top_n distinct indices
\* in descending relevance
RerankResponses(n, top_n) ==
    {[j \in 1..top_n |-> [index |-> f[j], relevance_score |-> best - j]] :
        f \in {g \in [1..top_n -> 1..n] :
                  \A a, b \in 1..top_n : a # b => g[a] # g[b]},
        best \in Relevances}

\* variant of RerankCopy: a new dict is built and the file is left out
RerankCopyBare(chunk, relevance_score) ==
    [chunk EXCEPT !.rerank_score = relevance_score, !.source_file = "unknown"]

\* chunk = chunks[result.index].copy(); chunk["rerank_score"] = relevance_score
RerankCopy(chunk, relevance_score) ==
    [chunk EXCEPT !.rerank_score = relevance_score]

\* the for loop of _rerank_with_cohere over response.results
RerankedChunks(chunks, results) ==
    [j \in 1..Len(results) |->
        RerankCopy(chunks[results[j].index], results[j].relevance_score)]

\* lists of n distinct points with scores that do not increase
RECURSIVE HitLists(_)
HitLists(n) ==
    IF n = 0 THEN {<<>>}
    ELSE {Append(l, Chunk(p, sc)) :
            l \in {h \in HitLists(n - 1) : Len(h) = n - 1},
            p \in Points, sc \in IndexScores}

\* what self.qdrant.search can return for one query: at most `limit` points,
\* each once, best first, none below the similarity floor
IndexResults(limit) ==
    {l \in UNION {HitLists(n) : n \in 0..limit} :
        /\ \A a, b \in 1..Len(l) : a < b =>
              /\ l[a].exact_text # l[b].exact_text
              /\ l[a].score >= l[b].score
        /\ \A a \in 1..Len(l) : l[a].score >= SIMILARITY_THRESHOLD}

\* _search_with_embedding: the index call raises and the function returns
\* [], or the index answers and the function returns the chunks
SearchWithEmbedding(limit) ==
    {[raised |-> TRUE, results |-> <<>>]}
        \cup {[raised |-> FALSE, results |-> l] : l \in IndexResults(limit)}

\* no rerank request made
NoRequest == [query |-> <<>>, documents |-> <<>>, top_n |-> 0]

\* variant of RerankRequest: top_n is top_k
RerankRequestTopK(original_query, chunks, top_k) ==
    [query |-> original_query,
     documents |-> [j \in 1..Len(chunks) |-> chunks[j].exact_text],
     top_n |-> top_k]

\* the arguments of self.embedder.rerank in _rerank_with_cohere: the query,
\* the texts of the chunks, top_n = min(top_k, len(documents))
RerankRequest(original_query, chunks, top_k) ==
    [query |-> original_query,
     documents |-> [j \in 1..Len(chunks) |-> chunks[j].exact_text],
     top_n |-> Min(top_k, Len(chunks))]

\* no search in progress
ReqIdle ==
    [top_k |-> 0, enable_reranking |-> FALSE, all_embeddings |-> <<>>,
     i |-> 0, searches |-> <<>>, all_results |-> <<>>, merged |-> <<>>,
     rerank |-> "none", rerank_request |-> NoRequest,
     rerank_response |-> <<>>, rerank_exc |-> <<>>, reranked |-> <<>>,
     final_results |-> <<>>, status |-> "idle", exc |-> <<>>]

\* search() from the diversity step to its return statement
SearchFinish(r, reranked) ==
    [r EXCEPT !.reranked = reranked,
              !.final_results = ApplyDiversity(reranked, r.top_k),
              !.status = "returned"]

\* search() raises exc
SearchRaise(r, exc) == [r EXCEPT !.status = "raised", !.exc = exc]

\* text[:200] on None
TypeError == <<"'NoneType' object is not subscriptable">>

----------------------------------------------------------------------------
(* Specification of search() *)

\* the queries searched for: the input queries of one or two items, and one
\* with more variants than expand_query returns
SearchQueries ==
    {q \in Queries : Len(q) <= 3}
        \cup { <<"how", " ", "to", " ", "and", " ", "competition">> }

InitSearch ==
    /\ ed = EdIdle
    /\ phase = "search"
    /\ query \in SearchQueries
    /\ expanded = <<>>
    /\ gw = GwIdle
    /\ mg = MgIdle
    /\ \E k \in 1..MaxTopK, e \in BOOLEAN :
          req = [ReqIdle EXCEPT !.top_k = k, !.enable_reranking = e,
                                !.status = "running"]

\* search(): the query is expanded, then the lookup of embed_queries on
\* self.embedder fails and its exception leaves search()
Search ==
    /\ phase = "search"
    /\ expanded' \in ExpandQuery(query)
    /\ "embed_queries" \notin EmbedderAttributes
    /\ phase' = "raised"
    /\ req' = SearchRaise(req, AttributeError("embed_queries"))
    /\ UNCHANGED <<query, gw, mg, ed>>

NextSearch == Search

SpecSearch == InitSearch /\ [][NextSearch]_vars

----------------------------------------------------------------------------
(* Specification of the statements of search() that follow the embedding *)
(* of the queries, entered with one vector for each expanded query        *)

\* the queries of the pipeline
PipelineQueries == { <<"startup">> }

InitPipeline ==
    /\ ed = EdIdle
    /\ phase = "searching"
    /\ query \in PipelineQueries
    /\ expanded \in ExpandQuery(query)
    /\ gw = GwIdle
    /\ mg = MgIdle
    /\ \E k \in 1..MaxTopK, e \in BOOLEAN :
          req = [ReqIdle EXCEPT !.top_k = k, !.enable_reranking = e,
                                !.all_embeddings = Embeddings(expanded),
                                !.status = "running"]

\* search() after the loop over the queries: merge, then rerank or return
AfterLoop(r) ==
    LET m == MergeResults(r.all_results)
    IN  IF m.raised
        THEN [phase |-> "raised", req |-> SearchRaise(r, TypeError), gw |-> GwIdle]
        ELSE LET r1 == [r EXCEPT !.merged = m.merged]
             IN  IF ~r.enable_reranking \/ m.merged = <<>>
                 THEN [phase |-> "returned",
                       req |-> SearchFinish([r1 EXCEPT !.rerank = "skipped"],
                                            Take(m.merged, r.top_k)),
                       gw |-> GwIdle]
                 ELSE [phase |-> "reranking",
                       req |-> [r1 EXCEPT !.rerank_request =
                                   RerankRequest(query, m.merged, r.top_k)],
                       gw |-> GwEnter("rerank", RERANK_MAX_RETRIES, RERANK_INITIAL_WAIT)]

\* one iteration of the loop over zip(queries, all_embeddings): the index
\* search with the next embedding; after the last one search() goes on to
\* the merge
SearchIndexStep ==
    /\ phase = "searching"
    /\ req.i < Min(Len(expanded), Len(req.all_embeddings))
    /\ \E o \in SearchWithEmbedding(Min(req.top_k * 2,
                                        MaxHits - Len(req.all_results))) :
          LET r == [req EXCEPT !.i = @ + 1,
                               !.searches = Append(@, o),
                               !.all_results = @ \o o.results]
          IN  IF r.i < Min(Len(expanded), Len(req.all_embeddings))
              THEN phase' = phase /\ req' = r /\ gw' = gw
              ELSE LET n == AfterLoop(r)
                   IN  phase' = n.phase /\ req' = n.req /\ gw' = n.gw
    /\ UNCHANGED <<query, expanded, mg, ed>>

\* one iteration of the retry loop of the rerank call; on its return the
\* results are mapped to chunks, on its exception the merged order is used
SearchRerankStep ==
    /\ phase = "reranking"
    /\ gw.status = "running"
    /\ \E g \in GwStep(gw, SearchErrors,
                       RerankResponses(Len(req.rerank_request.documents),
                                       req.rerank_request.top_n)) :
          IF g.status = "returned"
          THEN /\ phase' = "returned"
               /\ req' = SearchFinish([req EXCEPT !.rerank = "ok",
                                                  !.rerank_response = g.response],
                                      RerankedChunks(req.merged, g.response))
               /\ gw' = GwIdle
          ELSE IF g.status = "raised"
          THEN /\ phase' = "returned"
               /\ req' = SearchFinish([req EXCEPT !.rerank = "failed",
                                                  !.rerank_exc = g.exc],
                                      RerankFallback(req.merged, req.top_k))
               /\ gw' = GwIdle
          ELSE phase' = phase /\ req' = req /\ gw' = g
    /\ UNCHANGED <<query, expanded, mg, ed>>

NextPipeline ==
    \/ SearchIndexStep
    \/ SearchRerankStep

SpecPipeline == InitPipeline /\ [][NextPipeline]_vars

----------------------------------------------------------------------------
(* Specification of _rerank_with_cohere followed by _apply_diversity, as   *)
(* functions of their arguments                                            *)

\* largest number of chunks of a ranked list, and largest top_k
MaxRanked == 7

\* the files the chunks of a ranked list come from
RankedSources == {"lean.pdf", "blog.html"}

\* the n-th chunk of a ranked list, as _merge_results leaves it: its text
\* has n characters, its score falls with n
RankedChunk(n, source_file) ==
    [exact_text |-> [j \in 1..n |-> "t"], source_file |-> source_file,
     score |-> (90 - n) * ScoreUnit, match_count |-> 1, rerank_score |-> Absent]

\* the ranked lists: every assignment of files to at most MaxRanked chunks
RankedLists ==
    UNION {{[n \in 1..len |-> RankedChunk(n, f[n])] :
                f \in [1..len -> RankedSources]} : len \in 0..MaxRanked}

\* response.results of the reranker for n documents in the order given and
\* in the opposite order, cut to top_n
RerankOrders(n, top_n) ==
    { [j \in 1..top_n |-> [index |-> j, relevance_score |-> 99 - j]],
      [j \in 1..top_n |-> [index |-> n + 1 - j, relevance_score |-> 99 - j]] }

InitSelect ==
    /\ ed = EdIdle
    /\ phase = "select"
    /\ query = <<>>
    /\ expanded = <<>>
    /\ gw = GwIdle
    /\ mg = MgIdle
    /\ \E l \in RankedLists, k \in 1..MaxRanked, e \in BOOLEAN :
          req = [ReqIdle EXCEPT !.top_k = k, !.enable_reranking = e,
                                !.merged = l, !.status = "running"]

\* _rerank_with_cohere up to the rerank call: it returns chunks[:top_k] when
\* reranking is disabled or there is no chunk, else it enters the gateway
RerankCall ==
    /\ phase = "select"
    /\ IF ~req.enable_reranking \/ req.merged = <<>>
       THEN /\ req' = [req EXCEPT !.rerank = "skipped",
                                  !.reranked = Take(req.merged, req.top_k)]
            /\ phase' = "diversity"
            /\ gw' = gw
       ELSE /\ gw' = GwEnter("rerank", RERANK_MAX_RETRIES, RERANK_INITIAL_WAIT)
            /\ phase' = "rerank"
            /\ req' = [req EXCEPT !.rerank_request =
                          RerankRequest(query, req.merged, req.top_k)]
    /\ UNCHANGED <<query, expanded, mg, ed>>

\* one iteration of the retry loop of the rerank call, and the rest of
\* _rerank_with_cohere when the call is over
RerankStep ==
    /\ phase = "rerank"
    /\ gw.status = "running"
    /\ \E g \in GwStep(gw, SearchErrors,
                       RerankOrders(Len(req.rerank_request.documents),
                                    req.rerank_request.top_n)) :
          IF g.status = "returned"
          THEN /\ phase' = "diversity"
               /\ req' = [req EXCEPT !.rerank = "ok",
                                     !.rerank_response = g.response,
                                     !.reranked = RerankedChunks(req.merged, g.response)]
               /\ gw' = GwIdle
          ELSE IF g.status = "raised"
          THEN /\ phase' = "diversity"
               /\ req' = [req EXCEPT !.rerank = "failed", !.rerank_exc = g.exc,
                                     !.reranked = RerankFallback(req.merged, req.top_k)]
               /\ gw' = GwIdle
          ELSE phase' = phase /\ req' = req /\ gw' = g
    /\ UNCHANGED <<query, expanded, mg, ed>>

\* _apply_diversity runs on what _rerank_with_cohere returned
DiversityCall ==
    /\ phase = "diversity"
    /\ req' = SearchFinish(req, req.reranked)
    /\ phase' = "selected"
    /\ UNCHANGED <<query, expanded, gw, mg, ed>>

NextSelect ==
    \/ RerankCall
    \/ RerankStep
    \/ DiversityCall

SpecSelect == InitSelect /\ [][NextSelect]_vars

\* every call that was made runs to its end
SpecSelectFair == SpecSelect /\ WF_vars(NextSelect)

----------------------------------------------------------------------------
(* Specification of one gateway call *)

InitGateway ==
    /\ ed = EdIdle
    /\ phase = "gateway"
    /\ query = <<>>
    /\ expanded = <<>>
    /\ mg = MgIdle
    /\ req = ReqIdle
    /\ \E op \in {"embed", "rerank"}, m \in 0..MaxRetries, w \in InitialWaits :
          gw = GwEnter(op, m, w)

\* one iteration of the retry loop of the call
GwAttempt ==
    /\ phase = "gateway"
    /\ gw.status = "running"
    /\ gw' \in GwStep(gw, ErrorTexts, {<<"response">>})
    /\ UNCHANGED <<phase, query, expanded, mg, req, ed>>

NextGateway == GwAttempt

SpecGateway == InitGateway /\ [][NextGateway]_vars

----------------------------------------------------------------------------
(* Specification of embed_documents *)

InitEmbedDocuments ==
    /\ phase = "embed_documents"
    /\ query = <<>>
    /\ expanded = <<>>
    /\ gw = GwIdle
    /\ mg = MgIdle
    /\ req = ReqIdle
    /\ \E n \in 0..MaxTexts, b \in BatchSizes, m \in 0..MaxRetries,
          w \in InitialWaits :
          ed = EdCalled([t \in 1..n |-> t], b, m, w)

\* the statements before the first provider call: the locals are set and
\* the loop is entered
EmbedDocumentsCall ==
    /\ phase = "embed_documents"
    /\ ed.status = "called"
    /\ ed' = EdLoop([ed EXCEPT !.total_batches = TotalBatches(ed.texts, ed.batch_size)])
    /\ gw' = EdGateway(ed', gw)
    /\ phase' = IF ed'.status = "returned" THEN "returned" ELSE phase
    /\ UNCHANGED <<query, expanded, mg, req>>

\* one iteration of the retry loop of the batch in progress; on its return
\* the vectors are appended and the loop goes on, on its exception the
\* exception leaves embed_documents
EmbedDocumentsStep ==
    /\ phase = "embed_documents"
    /\ ed.status = "running"
    /\ gw.status = "running"
    /\ \E g \in GwStep(gw, ErrorTexts,
                       {EmbedResponse(ed.batches[Len(ed.batches)].texts)}) :
          IF g.status = "returned"
          THEN /\ ed' = EdLoop([ed EXCEPT
                          !.all_embeddings = Extend(@, g.response),
                          !.i = ed.i + ed.batch_size])
               /\ gw' = EdGateway(ed', g)
               /\ phase' = IF ed'.status = "returned" THEN "returned" ELSE phase
          ELSE IF g.status = "raised"
          THEN /\ ed' = [ed EXCEPT !.status = "raised", !.exc = g.exc]
               /\ gw' = g
               /\ phase' = "raised"
          ELSE ed' = ed /\ gw' = g /\ phase' = phase
    /\ UNCHANGED <<query, expanded, mg, req>>

NextEmbedDocuments ==
    \/ EmbedDocumentsCall
    \/ EmbedDocumentsStep

SpecEmbedDocuments == InitEmbedDocuments /\ [][NextEmbedDocuments]_vars

----------------------------------------------------------------------------
(* Specification of _merge_results as a function of its argument *)

\* the chunks a candidate list is made of
CandidateChunks == {Chunk(p, sc) : p \in Points \cup BarePoints, sc \in IndexScores}

\* the reorderings of a list
Reorderings(l) ==
    {[i \in 1..Len(l) |-> l[f[i]]] : f \in Permutations(1..Len(l))}

InitMerge ==
    /\ ed = EdIdle
    /\ phase = "merge"
    /\ query = <<>>
    /\ expanded = <<>>
    /\ gw = GwIdle
    /\ req = ReqIdle
    /\ \E l \in SeqsUpTo(CandidateChunks, MaxCand) : \E r \in Reorderings(l) :
          mg = [MgIdle EXCEPT !.all_results = l, !.permuted = r]

\* _merge_results runs on the list and on its reordering
MergeCall ==
    /\ phase = "merge"
    /\ mg' = [mg EXCEPT !.called = TRUE,
                        !.out = MergeResults(mg.all_results),
                        !.out_permuted = MergeResults(mg.permuted)]
    /\ phase' = "merged"
    /\ UNCHANGED <<query, expanded, gw, req, ed>>

NextMerge == MergeCall

SpecMerge == InitMerge /\ [][NextMerge]_vars

----------------------------------------------------------------------------
(* Specification of expand_query as a function of its argument *)

InitExpand ==
    /\ ed = EdIdle
    /\ phase = "expand"
    /\ query \in Queries
    /\ expanded = <<>>
    /\ gw = GwIdle
    /\ mg = MgIdle
    /\ req = ReqIdle

\* expand_query(query) runs and returns
ExpandQueryCall ==
    /\ phase = "expand"
    /\ expanded' \in ExpandQuery(query)
    /\ phase' = "expanded"
    /\ UNCHANGED <<query, gw, mg, req, ed>>

NextExpand == ExpandQueryCall

SpecExpand == InitExpand /\ [][NextExpand]_vars

----------------------------------------------------------------------------
(* Claims about expand_query *)

\* a query that str.strip() leaves as it is (no blank at either end)
Trimmed(q) == q # <<>> /\ Strip(q) = q

\* C1: for every non-empty query q, expand_query(q) returns a non-empty list
\* of at most 8 elements that contains q itself, also when the rules generate
\* more than 8 distinct variants.  Stated for the queries without surrounding
\* blanks, the case the claim singles out.
C1_ExpandContract ==
    (phase = "expanded" /\ Trimmed(query)) =>
        /\ Len(expanded) >= 1
        /\ Len(expanded) <= MAX_QUERIES
        /\ InList(query, expanded)

\* C2: for every non-empty query q, the list expand_query(q) returns contains
\* the three fixed-suffix variants "q case study", "q real world example"
\* and "q how they did it".  Stated for the queries without surrounding
\* blanks.
C2_FixedSuffixVariants ==
    (phase = "expanded" /\ Trimmed(query)) =>
        /\ InList(CaseStudy(query), expanded)
        /\ InList(RealWorldExample(query), expanded)
        /\ InList(HowTheyDidIt(query), expanded)

\* C18: when the rules generate more than 8 distinct non-blank variants,
\* expand_query returns exactly the first 8 in insertion order (original,
\* synonym variant, concept phrase, reformulations, sub-queries, fixed
\* suffixes), the same list on every call.
C18_FirstEightInInsertionOrder ==
    (phase = "expanded" /\ Len(InsertionOrder(query)) > MAX_QUERIES) =>
        expanded = SubSeq(InsertionOrder(query), 1, MAX_QUERIES)

RECURSIVE ReplaceFirst(_, _, _)
\* s with the first occurrence of a one-fragment term replaced
ReplaceFirst(s, term, rep) ==
    IF s = <<>> THEN <<>>
    ELSE IF Head(s) = term THEN rep \o Tail(s)
    ELSE <<Head(s)>> \o ReplaceFirst(Tail(s), term, rep)

\* the synonym pass with a single substitution: the first synonym of the
\* first vocabulary term of the lowercased query, put once after the term's
\* first occurrence
SynonymOnce(q) ==
    LET e    == Lower(q)
        hits == {i \in 1..Len(synonym_map) : Contains(e, <<synonym_map[i].term>>)}
    IN  IF hits = {} THEN e
        ELSE LET i == CHOOSE h \in hits : \A g \in hits : h <= g
             IN  ReplaceFirst(e, synonym_map[i].term,
                              <<synonym_map[i].term, SP, synonym_map[i].syn>>)

\* C19: the synonym pass makes at most one substitution per call: the first
\* synonym of the first vocabulary term found is inserted after the term
\* once; no other term and no other occurrence is expanded.
C19_OneSubstitution ==
    phase = "expanded" => ExpandWithSynonyms(query) = SynonymOnce(query)

\* C20: for a query with more than one "?", every non-empty "?"-delimited
\* question of the query, with "?" put back, is among the sub-queries of the
\* decomposition step.
C20_EveryQuestionKept ==
    (phase = "expanded" /\ Count(query, QM) > 1) =>
        LET questions == Questions(SubSeq(Split(query, QM), 1,
                                          Len(Split(query, QM)) - 1))
        IN  \A n \in 1..Len(questions) :
                InList(questions[n], DecomposeComplexQuery(query))

----------------------------------------------------------------------------
(* Claims about the gateway *)

\* the provider errors whose text contains "429", "rate limit" or "too many"
\* in any letter case
ThrottlingTexts ==
    { <<"status_code: ", "429">>,
      <<"Rate Limit", " exceeded">>,
      <<"Too Many", " requests">>,
      <<"Max retries exceeded due to ", "rate limit", "s: ", "upstream">> }

\* the i-th provider call of the gateway call was throttled
ThrottledCall(i) == ~gw.calls[i].ok /\ gw.calls[i].value \in ThrottlingTexts

\* the i-th provider call raised an error that is no throttling signal
FaultyCall(i) == ~gw.calls[i].ok /\ gw.calls[i].value \notin ThrottlingTexts

\* C3: a throttled provider call is retried with exponential backoff: the
\* wait before the i-th retry is initial_wait * 2^(i-1), and a gateway call
\* makes at most max_retries retries, at most max_retries + 1 provider calls.
C3_ExponentialBackoff ==
    gw.op \in {"embed", "rerank"} =>
        /\ \A i \in 1..Len(gw.sleeps) : gw.sleeps[i] = gw.initial_wait * 2^(i - 1)
        /\ Len(gw.sleeps) <= gw.max_retries
        /\ Len(gw.calls) <= gw.max_retries + 1
        /\ \A i \in 1..Len(gw.calls) :
              (ThrottledCall(i) /\ i <= gw.max_retries) =>
                  /\ Len(gw.sleeps) >= i
                  /\ (Len(gw.calls) > i \/ gw.status = "running")

\* three throttled calls were retried and the fourth call returned
C3_Witness ==
    /\ gw.status = "returned"
    /\ Len(gw.sleeps) = 3
    /\ Len(gw.calls) = 4

\* C4: a provider error that is no throttling signal is re-raised unchanged on
\* the attempt where it occurs, with no wait and no further provider call,
\* also when earlier attempts of the call were throttled and retried.
C4_OtherErrorRaisedAtOnce ==
    \A i \in 1..Len(gw.calls) :
        FaultyCall(i) =>
            /\ i = Len(gw.calls)
            /\ gw.status = "raised"
            /\ gw.exc = gw.calls[i].value
            /\ Len(gw.sleeps) = i - 1

\* a fault on the third attempt, after two throttled attempts
C4_Witness ==
    /\ Len(gw.calls) = 3
    /\ ThrottledCall(1) /\ ThrottledCall(2) /\ FaultyCall(3)
    /\ gw.status = "raised"

\* the raised exception is the terminal error of the gateway
IsTerminal(exc) ==
    /\ Len(exc) >= 3
    /\ SubSeq(exc, 1, 3) = <<"Max retries exceeded due to ", "rate limit", "s: ">>

\* C5: a gateway call raises the terminal "Max retries exceeded due to rate
\* limits" error if and only if all max_retries + 1 attempts were throttled;
\* every other failing call surfaces the provider's original error.
C5_TerminalIffExhausted ==
    gw.status = "raised" =>
        LET n == Len(gw.calls)
            exhausted == /\ n = gw.max_retries + 1
                         /\ \A i \in 1..n : ThrottledCall(i)
        IN  /\ IsTerminal(gw.exc) <=> exhausted
            /\ exhausted => gw.exc = MaxRetriesExceeded(gw.calls[n].value)
            /\ ~exhausted => (n >= 1 /\ FaultyCall(n) /\ gw.exc = gw.calls[n].value)

\* all four attempts of a call with max_retries = 3 were throttled
C5_Witness ==
    /\ gw.status = "raised"
    /\ gw.max_retries = 3
    /\ Len(gw.calls) = 4
    /\ IsTerminal(gw.exc)

----------------------------------------------------------------------------
(* Claims about embed_documents *)

\* the least number of batches of at most batch_size texts that hold n texts
CeilDiv(n, batch_size) == (n + batch_size - 1) \div batch_size

\* the b-th of the consecutive slices of batch_size texts
Slice(texts, b, batch_size) ==
    SubSeq(texts, (b - 1) * batch_size + 1, Min(b * batch_size, Len(texts)))

\* the sub-batches submitted so far are document-mode calls for the first
\* consecutive slices of the texts, each of 1 to batch_size texts
SubmittedInOrder ==
    \A b \in 1..Len(ed.batches) :
        /\ ed.batches[b].input_type = "search_document"
        /\ ed.batches[b].texts = Slice(ed.texts, b, ed.batch_size)
        /\ Len(ed.batches[b].texts) \in 1..ed.batch_size

\* the vectors of every sub-batch before the last submitted one have been
\* received, in order, and no more
EarlierBatchesDone ==
    /\ Len(ed.batches) >= 1
    /\ Len(ed.all_embeddings) = (Len(ed.batches) - 1) * ed.batch_size
    /\ \A j \in 1..Len(ed.all_embeddings) :
          ed.all_embeddings[j] = EmbeddingOf(ed.texts[j])

\* the state of embed_documents agrees with the claim
EmbedDocumentsInBatches ==
    /\ SubmittedInOrder
    /\ Len(ed.batches) <= CeilDiv(Len(ed.texts), ed.batch_size)
    /\ ed.status = "running" => EarlierBatchesDone /\ gw.status = "running"
    /\ ed.status = "returned" =>
          /\ Len(ed.batches) = CeilDiv(Len(ed.texts), ed.batch_size)
          /\ Len(ed.batches) = ed.total_batches
          /\ Len(ed.result) = Len(ed.texts)
          /\ \A j \in 1..Len(ed.texts) : ed.result[j] = EmbeddingOf(ed.texts[j])
    /\ ed.status = "raised" =>
          /\ EarlierBatchesDone
          /\ gw.status = "raised"
          /\ ed.exc = gw.exc
          /\ ed.result = NoResult

\* C21: embed_documents on n texts submits the ceil(n / batch_size)
\* consecutive slices of at most batch_size texts as document-mode
\* sub-batches, each one only after the vectors of the one before have been
\* received, and returns n vectors, the i-th the vector of the i-th text; if
\* a sub-batch ends in an error the call raises that error, returns nothing
\* and submits no later sub-batch.
C21_SequentialSubBatches ==
    /\ [](phase \in {"embed_documents", "returned", "raised"} =>
              EmbedDocumentsInBatches)
    /\ [][ed.status = "raised" => ed' = ed]_vars

\* a full sub-batch and a shorter second one were submitted and three
\* vectors returned, the second sub-batch having been throttled once
C21_Witness ==
    /\ ed.status = "returned"
    /\ ed.batch_size = 2
    /\ Len(ed.texts) = 3
    /\ Len(ed.batches) = 2
    /\ Len(ed.batches[2].texts) = 1
    /\ Len(gw.calls) = 2
    /\ Len(ed.result) = 3

\* the second of three sub-batches ended in an error after the first had
\* returned its vectors
C21_WitnessRaised ==
    /\ ed.status = "raised"
    /\ ed.batch_size = 1
    /\ Len(ed.texts) = 3
    /\ Len(ed.batches) = 2
    /\ Len(ed.all_embeddings) = 1
    /\ ed.result = NoResult

----------------------------------------------------------------------------
(* Claims about _merge_results *)

\* two chunks have the same first 200 characters of text
SamePrefix(a, b) == TakeChars(a.exact_text, 200) = TakeChars(b.exact_text, 200)

\* the candidates of a list that share their first 200 characters with c
Occurrences(l, c) == SelectSeq(l, LAMBDA x : SamePrefix(x, c))

RECURSIVE CumulativeAverage(_)
\* a_n for the scores of the chunks of l: a_1 = s_1, a_i = (a_(i-1) + s_i) / 2
CumulativeAverage(l) ==
    IF Len(l) = 1 THEN l[1].score
    ELSE (CumulativeAverage(SubSeq(l, 1, Len(l) - 1)) + l[Len(l)].score) \div 2

\* the entries of a merged list for the text prefix of c
EntriesFor(merged, c) == {j \in 1..Len(merged) : SamePrefix(merged[j], c)}

\* C8: a chunk that occurs n times in the candidate list with scores s1..sn
\* has exactly one entry in the list _merge_results returns, with
\* match_count = n and the score a_n of the cumulative pairwise average.
C8_CumulativePairwiseAverage ==
    (phase = "merged" /\ ~mg.out.raised) =>
        \A i \in 1..Len(mg.all_results) :
            LET c    == mg.all_results[i]
                occ  == Occurrences(mg.all_results, c)
                found == EntriesFor(mg.out.merged, c)
            IN  /\ Cardinality(found) = 1
                /\ \A j \in found :
                      /\ mg.out.merged[j].match_count = Len(occ)
                      /\ mg.out.merged[j].score = CumulativeAverage(occ)

\* one chunk occurred three times, with scores that are not all the same
C8_Witness ==
    /\ phase = "merged" /\ ~mg.out.raised
    /\ Len(mg.all_results) = 3
    /\ Len(mg.out.merged) = 1
    /\ mg.out.merged[1].match_count = 3
    /\ mg.all_results[1].score # mg.all_results[3].score

\* what a merged list says of each de-duplicated chunk
Summary(merged) ==
    {<<TakeChars(merged[j].exact_text, 200), merged[j].match_count, merged[j].score>> :
        j \in 1..Len(merged)}

\* the same without the scores of the chunks that occurred more than twice
SummaryUpToTwo(merged) ==
    {<<TakeChars(merged[j].exact_text, 200), merged[j].match_count,
       IF merged[j].match_count <= 2 THEN merged[j].score ELSE Absent>> :
        j \in 1..Len(merged)}

C10_SortedByMatchCountThenScore ==
    (phase = "merged" /\ ~mg.out.raised) =>
        \A i, j \in 1..Len(mg.out.merged) :
            i < j =>
                LET a == mg.out.merged[i]
                    b == mg.out.merged[j]
                IN  \/ a.match_count > b.match_count
                    \/ a.match_count = b.match_count /\ a.score >= b.score

\* a chunk with two matches precedes a chunk with one match and a higher score
C10_Witness ==
    /\ phase = "merged" /\ ~mg.out.raised
    /\ Len(mg.out.merged) = 2
    /\ mg.out.merged[1].match_count = 2
    /\ mg.out.merged[2].match_count = 1
    /\ mg.out.merged[1].score < mg.out.merged[2].score

\* a candidate of the list l has no exact_text
HasBareCandidate(l) == \E i \in 1..Len(l) : l[i].exact_text = NoneText

\* C29: a candidate whose payload has no exact_text (stored as None) is
\* treated by _merge_results as having empty text and does not make the
\* merge raise.
C29_NoneTextDoesNotRaise ==
    (phase = "merged" /\ HasBareCandidate(mg.all_results)) => ~mg.out.raised

RECURSIVE SumMatchCount(_)
\* sum of match_count over the entries of a merged list
SumMatchCount(merged) ==
    IF merged = <<>> THEN 0
    ELSE Head(merged).match_count + SumMatchCount(Tail(merged))

\* C30: _merge_results neither loses nor invents candidates: its output has
\* exactly one entry per distinct first-200-character prefix of the input,
\* that entry is the chunk of the prefix's first occurrence, every entry's
\* prefix occurs in the input, and the match_counts add up to the number of
\* input candidates.
C30_NothingLostNothingInvented ==
    (phase = "merged" /\ ~mg.out.raised) =>
        /\ \A i \in 1..Len(mg.all_results) :
              LET c     == mg.all_results[i]
                  first == Occurrences(mg.all_results, c)[1]
                  found == EntriesFor(mg.out.merged, c)
              IN  /\ Cardinality(found) = 1
                  /\ \A j \in found :
                        /\ mg.out.merged[j].exact_text = first.exact_text
                        /\ mg.out.merged[j].source_file = first.source_file
        /\ \A j \in 1..Len(mg.out.merged) :
              \E i \in 1..Len(mg.all_results) :
                  SamePrefix(mg.out.merged[j], mg.all_results[i])
        /\ SumMatchCount(mg.out.merged) = Len(mg.all_results)

\* three candidates, two of them with the same first 200 characters but
\* different texts and files, merged into two entries
C30_Witness ==
    /\ phase = "merged" /\ ~mg.out.raised
    /\ Len(mg.all_results) = 3
    /\ Len(mg.out.merged) = 2
    /\ \E a, b \in 1..3 :
          /\ a < b
          /\ SamePrefix(mg.all_results[a], mg.all_results[b])
          /\ mg.all_results[a].exact_text # mg.all_results[b].exact_text
          /\ mg.all_results[a].source_file # mg.all_results[b].source_file

----------------------------------------------------------------------------
(* Claims about _rerank_with_cohere and _apply_diversity *)

\* C11: with reranking disabled the returned list is, element for element
\* and in the same order, the first top_k entries of the merger's output.
C11_DisabledRerankKeepsMergeOrder ==
    (phase = "selected" /\ ~req.enable_reranking) =>
        req.final_results = SubSeq(req.merged, 1, Min(req.top_k, Len(req.merged)))

\* the rerank call of _rerank_with_cohere failed
RerankFailed == req.rerank = "failed"

\* C12: when the rerank call fails, rate-limit exhaustion included,
\* _rerank_with_cohere raises nothing and returns the first
\* min(2 * top_k, len(merged)) chunks of the merged list in their order, a
\* non-empty list; nothing is raised afterwards either.
C12_RerankFailureFallsBack ==
    RerankFailed =>
        /\ req.reranked =
              SubSeq(req.merged, 1, Min(2 * req.top_k, Len(req.merged)))
        /\ req.reranked # <<>>
        /\ req.status # "raised"
        /\ phase \in {"diversity", "selected"}

\* the gateway gave up after its retries, the merged list was longer than
\* 2 * top_k, and the selection is over
C12_Witness ==
    /\ RerankFailed
    /\ phase = "selected"
    /\ Len(req.rerank_exc) > 1
    /\ req.rerank_exc[1] = "Max retries exceeded due to "
    /\ Len(req.merged) > 2 * req.top_k
    /\ Len(req.reranked) = 2 * req.top_k

\* C13: the first min(3, len(input)) chunks given to _apply_diversity are
\* the first elements of its output, in the same order, whatever their
\* sources and whatever top_k.
C13_TopThreeKept ==
    phase = "selected" =>
        LET n == Min(3, Len(req.reranked))
        IN  /\ Len(req.final_results) >= n
            /\ SubSeq(req.final_results, 1, n) = SubSeq(req.reranked, 1, n)

\* the top 3 come from one file, a chunk of another file follows them in the
\* input, and the output holds more than the top 3
C13_Witness ==
    /\ phase = "selected"
    /\ Len(req.reranked) > 3
    /\ Len(req.final_results) > 3
    /\ \A n \in 1..3 : req.final_results[n].source_file = "lean.pdf"
    /\ \E n \in 4..Len(req.reranked) : req.reranked[n].source_file = "blog.html"

\* C14: the list returned by _apply_diversity never has more than top_k
\* elements, for every top_k >= 1 and every input list, the rerank-failure
\* path with up to 2 * top_k chunks included.
C14_AtMostTopK ==
    phase = "selected" => Len(req.final_results) <= req.top_k

\* the chunks of the list l that come from the file f
OfSource(l, f) == SelectSeq(l, LAMBDA c : c.source_file = f)

\* what _apply_diversity was given after the third chunk, and what it
\* returned after the third chunk
GivenAfterTop == SubSeq(req.reranked, 4, Len(req.reranked))
TakenAfterTop == SubSeq(req.final_results, 4, Len(req.final_results))

\* C24: beyond the top 3 the slots are filled by round robin over the
\* sources: of each source the chunks taken are its first in rank order, and
\* the numbers taken from two sources differ by more than one only if the
\* source with fewer chunks taken was exhausted.
C24_RoundRobinOverSources ==
    phase = "selected" =>
        \A f, g \in RankedSources :
            LET taken_f == OfSource(TakenAfterTop, f)
                taken_g == OfSource(TakenAfterTop, g)
                given_f == OfSource(GivenAfterTop, f)
                given_g == OfSource(GivenAfterTop, g)
            IN  /\ Len(taken_f) <= Len(given_f)
                /\ taken_f = SubSeq(given_f, 1, Len(taken_f))
                /\ Len(taken_f) > Len(taken_g) + 1 => taken_g = given_g

\* after the top 3 the input held one file three times and then the other
\* once; the output takes one chunk of each in the first pass and ends with
\* three of the first file and the only one of the second
C24_Witness ==
    /\ phase = "selected"
    /\ Len(GivenAfterTop) = 4
    /\ Len(TakenAfterTop) = 4
    /\ GivenAfterTop[2].source_file = GivenAfterTop[1].source_file
    /\ GivenAfterTop[3].source_file = GivenAfterTop[1].source_file
    /\ GivenAfterTop[4].source_file # GivenAfterTop[1].source_file
    /\ TakenAfterTop[2] = GivenAfterTop[4]
    /\ TakenAfterTop[3] = GivenAfterTop[2]

\* max(3, top_k)
AtLeastThree(top_k) == IF top_k < 3 THEN 3 ELSE top_k

\* C25 (what is returned): _apply_diversity raises nothing; with fewer than
\* 3 candidates it returns all of them; when the groups run out before the
\* top_k - 3 slots are filled it returns the shorter list, all its input.
C25_ReturnsWithoutRaising ==
    phase = "selected" =>
        /\ req.status = "returned"
        /\ Len(req.final_results) =
              Min(Len(req.reranked), AtLeastThree(req.top_k))
        /\ Len(req.reranked) < 3 => req.final_results = req.reranked

\* C25: _apply_diversity always terminates without raising, and returns as
\* C25_ReturnsWithoutRaising says.
C25_DiversityTerminates ==
    /\ [](C25_ReturnsWithoutRaising)
    /\ (phase = "diversity") ~> (phase = "selected")

\* the groups ran out: more than 3 candidates, fewer than top_k, all returned
C25_Witness ==
    /\ phase = "selected"
    /\ Len(req.reranked) > 3
    /\ Len(req.reranked) < req.top_k
    /\ Len(req.final_results) = Len(req.reranked)

\* the lists a and b hold the same chunks the same number of times
SameChunks(a, b) ==
    /\ Len(a) = Len(b)
    /\ \A n \in 1..Len(a) :
          Len(SelectSeq(a, LAMBDA c : c = a[n])) = Len(SelectSeq(b, LAMBDA c : c = a[n]))

\* C28: when the rerank call succeeds the diversity selection removes
\* nothing: the final list holds exactly the chunks the reranker returned,
\* at most top_k of them, the first three in the reranker's order.
C28_SuccessfulRerankKeepsAll ==
    (phase = "selected" /\ req.rerank = "ok") =>
        /\ SameChunks(req.final_results, req.reranked)
        /\ Len(req.final_results) <= req.top_k
        /\ \A n \in 1..Min(3, Len(req.reranked)) :
              req.final_results[n] = req.reranked[n]

\* the reranker returned more than 3 chunks and the selection reordered
\* those after the third
C28_Witness ==
    /\ phase = "selected" /\ req.rerank = "ok"
    /\ Len(req.reranked) > 4
    /\ req.final_results # req.reranked
    /\ \E n \in 1..Len(req.reranked) : req.reranked[n].rerank_score # Absent

----------------------------------------------------------------------------
(* Claims about search() *)

RECURSIVE Concatenation(_)
\* the results of the searches that did not fail, one after another
Concatenation(searches) ==
    IF searches = <<>> THEN <<>>
    ELSE (IF Head(searches).raised THEN <<>> ELSE Head(searches).results)
            \o Concatenation(Tail(searches))

\* the index call of the n-th query raised
IndexRaised(n) == n <= Len(req.searches) /\ req.searches[n].raised

\* search() is over
SearchOver == phase \in {"returned", "raised"}

CaseStudyText == <<"Q">>

\* the case-study chunk is among the chunks of the list l
HasCaseStudy(l) == \E n \in 1..Len(l) : l[n].exact_text = CaseStudyText

\* C15: if the case-study chunk is returned above the similarity floor by
\* the index search of at least one expanded query, it is an element of the
\* final list.
C15_CaseStudyChunkReturned ==
    (phase = "returned"
        /\ \E n \in 1..Len(req.searches) : HasCaseStudy(req.searches[n].results)) =>
        HasCaseStudy(req.final_results)

\* C16: after the expansion search() has entered the gateway once for the
\* embedding of the whole query list and, unless that call raised, holds one
\* vector per expanded query and goes on to the index searches.
C16_OneBatchedEmbedding ==
    phase # "search" =>
        /\ gw.op = "embed"
        /\ req.status = "raised" => gw.status = "raised" /\ req.exc = gw.exc
        /\ req.status # "raised" => Len(req.all_embeddings) = Len(expanded)

\* the chunk f carries the text and the provenance of a chunk that an index
\* search of this request returned
FromIndex(f) ==
    \E n \in 1..Len(req.searches) : \E j \in 1..Len(req.searches[n].results) :
        /\ req.searches[n].results[j].exact_text = f.exact_text
        /\ req.searches[n].results[j].source_file = f.source_file

\* every chunk of the list l is from the index
AllFromIndex(l) == \A n \in 1..Len(l) : FromIndex(l[n])

\* C17: across merge, rerank and diversity selection no chunk's text or
\* provenance is changed: every chunk of the merged list, of the reranked
\* list and of the final list carries the text and the provenance of a chunk
\* returned by one of the index searches.
C17_TextAndProvenanceKept ==
    /\ AllFromIndex(req.merged)
    /\ AllFromIndex(req.reranked)
    /\ AllFromIndex(req.final_results)

\* a chunk found twice, with the same first 200 characters in two files, was
\* averaged by the merge, scored by the reranker and returned
C17_Witness ==
    /\ phase = "returned"
    /\ req.rerank = "ok"
    /\ \E n \in 1..Len(req.final_results) :
          /\ req.final_results[n].match_count = 2
          /\ req.final_results[n].rerank_score # Absent
          /\ req.final_results[n].score \notin IndexScores
    /\ \E a, b \in 1..Len(req.all_results) :
          /\ req.all_results[a].source_file # req.all_results[b].source_file
          /\ TextKey(req.all_results[a]) = TextKey(req.all_results[b])

\* the expanded queries whose index search returned a chunk with the first
\* 200 characters of c
QueriesThatFound(c) ==
    {n \in 1..Len(req.searches) :
        \E j \in 1..Len(req.searches[n].results) :
            SamePrefix(req.searches[n].results[j], c)}

\* C22: after merging, each chunk's match_count is the number of distinct
\* expanded queries whose search result contained it; it never exceeds the
\* number of expanded queries, and the results of one query never raise it
\* above 1.
C22_MatchCountCountsQueries ==
    phase \in {"reranking", "returned"} =>
        \A j \in 1..Len(req.merged) :
            /\ req.merged[j].match_count = Cardinality(QueriesThatFound(req.merged[j]))
            /\ req.merged[j].match_count <= Len(expanded)

\* the texts of the chunks of a list
Texts(l) == [j \in 1..Len(l) |-> l[j].exact_text]

\* a rerank request was made for this search
RerankRequested == phase = "reranking" \/ req.rerank \in {"ok", "failed"}

\* C23: with reranking enabled and a non-empty merged list the adapter makes
\* one rerank request, with the original query (not an expanded variant),
\* the texts of all merged candidates in merged order and
\* top_n = min(top_k, number of candidates); on success its result lists, in
\* the reranker's order, the chunk at each returned index with rerank_score
\* set to that pair's relevance score.  Without reranking or without
\* candidates no request is made.
C23_RerankRequestAndMapping ==
    /\ RerankRequested =>
          /\ req.enable_reranking /\ req.merged # <<>>
          /\ req.rerank_request.query = query
          /\ req.rerank_request.documents = Texts(req.merged)
          /\ req.rerank_request.top_n =
                (IF req.top_k < Len(req.merged) THEN req.top_k ELSE Len(req.merged))
    /\ (phase = "returned" /\ req.enable_reranking /\ req.merged # <<>>) =>
          RerankRequested
    /\ ~RerankRequested => req.rerank_request = NoRequest
    /\ req.rerank = "ok" =>
          /\ Len(req.reranked) = Len(req.rerank_response)
          /\ Len(req.reranked) = req.rerank_request.top_n
          /\ \A j \in 1..Len(req.reranked) :
                req.reranked[j] =
                    [req.merged[req.rerank_response[j].index]
                        EXCEPT !.rerank_score = req.rerank_response[j].relevance_score]

\* two candidates and top_k = 1: the reranker was asked for one result with
\* the original query, which differs from every other expanded variant, and
\* returned the second candidate
C23_Witness ==
    /\ phase = "returned" /\ req.rerank = "ok"
    /\ Len(req.merged) = 2
    /\ req.top_k = 1
    /\ req.rerank_request.top_n = 1
    /\ req.rerank_response[1].index = 2
    /\ req.final_results[1].exact_text = req.merged[2].exact_text
    /\ \E n \in 1..Len(expanded) : expanded[n] # query

----------------------------------------------------------------------------
(* Properties of the statements of search() that follow the embedding *)

\* The loop over the queries tolerates an index call that raises: that
\* query adds nothing, the remaining queries are still searched, and the
\* merger gets the concatenation of the results of the other searches.
LoopToleratesIndexError ==
    (\E n \in 1..Len(req.searches) : IndexRaised(n)) =>
        /\ req.all_results = Concatenation(req.searches)
        /\ req.status # "raised"
        /\ phase = "searching" => req.i < Len(expanded)
        /\ phase \in {"reranking", "returned"} =>
              /\ Len(req.searches) = Len(expanded)
              /\ \E m \in {MergeResults(Concatenation(req.searches))} :
                    ~m.raised /\ req.merged = m.merged

\* the first index search raised, two later ones found a chunk each, and a
\* non-empty list was returned
LoopToleratesIndexError_Witness ==
    /\ phase = "returned"
    /\ IndexRaised(1)
    /\ Len(req.all_results) = 2
    /\ \E a, b \in 2..Len(req.searches) :
          a < b /\ Len(req.searches[a].results) = 1 /\ Len(req.searches[b].results) = 1
    /\ req.final_results # <<>>

\* no index search yielded a candidate
NoCandidate ==
    /\ expanded # <<>>
    /\ Len(req.searches) = Len(expanded)
    /\ \A n \in 1..Len(req.searches) :
          req.searches[n].raised \/ req.searches[n].results = <<>>

\* When every index search raised or returned nothing the statements end
\* with an empty list, without a rerank call and without an exception.
LoopWithoutCandidateReturnsEmpty ==
    (phase # "searching" /\ NoCandidate) =>
        /\ phase = "returned"
        /\ req.status = "returned"
        /\ req.final_results = <<>>

\* every index search raised, with reranking configured
LoopWithoutCandidate_Witness ==
    /\ NoCandidate
    /\ \A n \in 1..Len(expanded) : IndexRaised(n)
    /\ req.enable_reranking
    /\ req.status = "returned"
    /\ phase # "searching"

====
